---- MODULE Spec2Model ----
(***************************************************************************)
(* Model of sentinelhub/sentinelhub_statistical.py: the payload builder    *)
(* of the Sentinel Hub Statistical API request (SentinelHubStatistical).   *)
(*                                                                         *)
(* Python values are tagged records.  Objects the caller owns (the input   *)
(* data list and its entries, the aggregation, calculations and bounds     *)
(* dictionaries) live in `heap` and are passed by reference, so that the   *)
(* in-place mutations of body() and the aliasing between a stored payload  *)
(* and the caller's objects are visible.  Dictionaries that a call creates *)
(* itself (request_body, its 'input', the default calculations) are held   *)
(* by value inside the payload.                                            *)
(***************************************************************************)
EXTENDS Integers, Sequences, FiniteSets, TLC

VARIABLES heap, requests, last

vars == <<heap, requests, last>>

\* Bounds of the model.
MaxData == 2
MaxRequests == 2

-----------------------------------------------------------------------------
\* Python values.

None == [t |-> "none"]
Str(s) == [t |-> "str", s |-> s]
Num(n) == [t |-> "num", n |-> n]
Dict(m) == [t |-> "dict", m |-> m]
List(s) == [t |-> "list", items |-> s]
Tuple(s) == [t |-> "tuple", items |-> s]
Ref(r) == [t |-> "ref", r |-> r]

EmptyMap == [k \in {} |-> None]
EmptyDict == Dict(EmptyMap)

\* d[k] = v on a dictionary's key/value map.
Put(m, k, v) == [x \in DOMAIN m \cup {k} |-> IF x = k THEN v ELSE m[x]]

\* The object a value denotes: a reference is followed once into the heap.
Deref(h, v) == IF v.t = "ref" THEN h[v.r] ELSE v

\* isinstance(v, dict)
IsDict(h, v) == Deref(h, v).t = "dict"

\* bool(v)
Truthy(h, v) ==
    LET o == Deref(h, v)
    IN  CASE o.t = "none" -> FALSE
          [] o.t = "dict" -> DOMAIN o.m # {}
          [] o.t = "list" -> Len(o.items) > 0
          [] o.t = "tuple" -> Len(o.items) > 0
          [] o.t = "str" -> o.s # ""
          [] o.t = "num" -> o.n # 0
          [] OTHER -> TRUE

\* The value with every reference replaced by the object it points to: what
\* a reader of the structure (json serialisation, ==) observes.
RECURSIVE Resolve(_, _)
Resolve(h, v) ==
    CASE v.t = "ref" -> Resolve(h, h[v.r])
      [] v.t = "dict" -> Dict([k \in DOMAIN v.m |-> Resolve(h, v.m[k])])
      [] v.t = "list" -> List([i \in DOMAIN v.items |-> Resolve(h, v.items[i])])
      [] OTHER -> v

\* d[k] = v, in place when d is a heap object.
SetKey(h, d, k, v) ==
    IF d.t = "ref"
    THEN [heap |-> [h EXCEPT ![d.r] = Dict(Put(h[d.r].m, k, v))], val |-> d]
    ELSE [heap |-> h, val |-> Dict(Put(d.m, k, v))]

-----------------------------------------------------------------------------
\* sh_utils._update_other_args(dict1, dict2): recursive update of dict1 with
\* dict2; a dictionary value is merged into an existing dictionary, any other
\* value is assigned.  `keys` are the keys of dict2 still to visit.
RECURSIVE UpdateOtherArgs(_, _, _, _)
UpdateOtherArgs(h, dict1, dict2, keys) ==
    IF keys = {} THEN [heap |-> h, val |-> dict1]
    ELSE LET key == CHOOSE k \in keys : TRUE
             value == Deref(h, dict2).m[key]
             m1 == Deref(h, dict1).m
             step == IF IsDict(h, value) /\ key \in DOMAIN m1 /\ IsDict(h, m1[key])
                     THEN LET sub == UpdateOtherArgs(h, m1[key], value,
                                                     DOMAIN Deref(h, value).m)
                          IN  SetKey(sub.heap, dict1, key, sub.val)
                     ELSE SetKey(h, dict1, key, value)
         IN  UpdateOtherArgs(step.heap, step.val, dict2, keys \ {key})

-----------------------------------------------------------------------------
\* SentinelHubStatistical.body

\* for input_data_payload in request_data: ... (from index i on)
RECURSIVE InsertDataFilterMutOverwrite(_, _, _)
InsertDataFilterMutOverwrite(h, request_data, i) ==
    IF i > Len(h[request_data.r].items) THEN h
    ELSE LET e == h[request_data.r].items[i]
         IN  InsertDataFilterMutOverwrite(
                 [h EXCEPT ![e.r] = Dict(Put(h[e.r].m, "dataFilter", EmptyDict))],
                 request_data, i + 1)

RECURSIVE InsertDataFilterMutReplace(_, _, _)
InsertDataFilterMutReplace(h, request_data, i) ==
    IF i > Len(h[request_data.r].items) THEN h
    ELSE LET e == h[request_data.r].items[i]
             h1 == IF "dataFilter" \notin DOMAIN h[e.r].m
                   THEN [h EXCEPT ![e.r] = Dict(Put(EmptyMap, "dataFilter", EmptyDict))]
                   ELSE h
         IN  InsertDataFilterMutReplace(h1, request_data, i + 1)

RECURSIVE InsertDataFilter(_, _, _)
InsertDataFilter(h, request_data, i) ==
    IF i > Len(h[request_data.r].items) THEN h
    ELSE LET input_data_payload == h[request_data.r].items[i]
             h1 == IF "dataFilter" \notin DOMAIN h[input_data_payload.r].m
                   THEN SetKey(h, input_data_payload, "dataFilter", EmptyDict).heap
                   ELSE h
         IN  InsertDataFilter(h1, request_data, i + 1)

\* the default without its "default" key
DefaultCalculationsMut == EmptyDict

DefaultCalculations == Dict("default" :> EmptyDict)

RequestBody(request_bounds, request_data, aggregation, calculations) ==
    Dict("input" :> Dict("bounds" :> request_bounds @@ "data" :> request_data)
         @@ "aggregation" :> aggregation
         @@ "calculations" :> calculations)

\* if other_args: _update_other_args(payload, other_args); return payload
\* The merge raises on an other_args that has no items(), i.e. is no dict.
MergeOtherArgs(h, payload, other_args) ==
    IF Truthy(h, other_args)
    THEN IF ~IsDict(h, other_args)
         THEN [status |-> "raised", heap |-> h, ret |-> None]
         ELSE LET u == UpdateOtherArgs(h, payload, other_args,
                                       DOMAIN Deref(h, other_args).m)
              IN  [status |-> "ok", heap |-> u.heap, ret |-> u.val]
    ELSE [status |-> "ok", heap |-> h, ret |-> payload]

\* `if not calculations` instead of `if calculations is None`
BodyMutFalsy(h, request_bounds, request_data, aggregation, calculations, other_args) ==
    LET h1 == InsertDataFilter(h, request_data, 1)
        calc == IF ~Truthy(h1, calculations) THEN DefaultCalculations ELSE calculations
    IN  MergeOtherArgs(h1, RequestBody(request_bounds, request_data, aggregation, calc),
                       other_args)

\* request_body.update(other_args) instead of the recursive update
BodyMutShallow(h, request_bounds, request_data, aggregation, calculations, other_args) ==
    LET h1 == InsertDataFilter(h, request_data, 1)
        calc == IF calculations = None THEN DefaultCalculations ELSE calculations
        rb == RequestBody(request_bounds, request_data, aggregation, calc)
    IN  IF Truthy(h1, other_args)
        THEN IF ~IsDict(h1, other_args)
             THEN [status |-> "raised", heap |-> h1, ret |-> None]
             ELSE [status |-> "ok", heap |-> h1,
                   ret |-> Dict([k \in DOMAIN rb.m \cup DOMAIN other_args.m |->
                                   IF k \in DOMAIN other_args.m THEN other_args.m[k]
                                   ELSE rb.m[k]])]
        ELSE [status |-> "ok", heap |-> h1, ret |-> rb]

Body(h, request_bounds, request_data, aggregation, calculations, other_args) ==
    LET h1 == InsertDataFilter(h, request_data, 1)
        calc == IF calculations = None THEN DefaultCalculations ELSE calculations
    IN  MergeOtherArgs(h1, RequestBody(request_bounds, request_data, aggregation, calc),
                       other_args)

-----------------------------------------------------------------------------
\* time_utils, as the aggregation builder consumes it.  A time input is a
\* date ("YYYY-MM-DD"), a date with a time of day, or None (undefined).

IsoDate(d) == [t |-> "date", date |-> d]
IsoDateTime(d, tm) == [t |-> "datetime", date |-> d, time |-> tm]
Raised == [t |-> "raised"]

\* parse_time: a date is taken at midnight; None only when allowed.
ParseTime(x, allow_undefined) ==
    CASE x.t = "none" -> IF allow_undefined THEN None ELSE Raised
      [] x.t = "date" -> IsoDateTime(x.date, "00:00:00")
      [] x.t = "datetime" -> x
      [] OTHER -> Raised

\* parse_time_interval(time, allow_undefined): a pair of parsed times.
ParseTimeInterval(time, allow_undefined) ==
    CASE time.t = "none" -> IF allow_undefined THEN Tuple(<<None, None>>) ELSE Raised
      [] time.t = "tuple" /\ Len(time.items) = 2 ->
            LET a == ParseTime(time.items[1], allow_undefined)
                b == ParseTime(time.items[2], allow_undefined)
            IN  IF a = Raised \/ b = Raised THEN Raised ELSE Tuple(<<a, b>>)
      [] OTHER -> Raised

\* serialize_time of one timestamp: ISO 8601, "Z" for the UTC zone.
SerializeTimestamp(x, use_tz) ==
    IF x.t = "none" THEN None
    ELSE Str(x.date \o "T" \o x.time \o (IF use_tz THEN "Z" ELSE ""))

\* serialize_time(timestamp_input, use_tz) on a tuple: componentwise.
SerializeTime(interval, use_tz) ==
    Tuple([i \in DOMAIN interval.items |-> SerializeTimestamp(interval.items[i], use_tz)])

-----------------------------------------------------------------------------
\* SentinelHubStatistical.aggregation

AggregationPayload(evalscript, start_time, end_time, aggregation_interval) ==
    Dict("evalscript" :> evalscript
         @@ "timeRange" :> Dict("from" :> start_time @@ "to" :> end_time)
         @@ "aggregationInterval" :> Dict("of" :> aggregation_interval))

\* payload[k1], payload[k2] = pair
Unpack(payload, k1, k2, pair) ==
    Dict(Put(Put(payload.m, k1, pair.items[1]), k2, pair.items[2]))

\* `elif resolution` instead of `if resolution`
AggregationMutElif(h, evalscript, time_interval, aggregation_interval, size, resolution, other_args) ==
    LET parsed == ParseTimeInterval(time_interval, TRUE)
    IN  IF parsed = Raised THEN [status |-> "raised", heap |-> h, ret |-> None]
        ELSE LET ser == SerializeTime(parsed, TRUE)
                 p0 == AggregationPayload(evalscript, ser.items[1], ser.items[2],
                                          aggregation_interval)
                 p1 == IF Truthy(h, size) THEN Unpack(p0, "width", "height", size)
                       ELSE IF Truthy(h, resolution)
                            THEN Unpack(p0, "resx", "resy", resolution)
                            ELSE p0
             IN  MergeOtherArgs(h, p1, other_args)

\* 'from': end_time, 'to': start_time
AggregationMutSwap(h, evalscript, time_interval, aggregation_interval, size, resolution, other_args) ==
    LET parsed == ParseTimeInterval(time_interval, TRUE)
    IN  IF parsed = Raised THEN [status |-> "raised", heap |-> h, ret |-> None]
        ELSE LET ser == SerializeTime(parsed, TRUE)
                 p0 == AggregationPayload(evalscript, ser.items[2], ser.items[1],
                                          aggregation_interval)
                 p1 == IF Truthy(h, size) THEN Unpack(p0, "width", "height", size) ELSE p0
                 p2 == IF Truthy(h, resolution) THEN Unpack(p1, "resx", "resy", resolution)
                       ELSE p1
             IN  MergeOtherArgs(h, p2, other_args)

Aggregation(h, evalscript, time_interval, aggregation_interval, size, resolution, other_args) ==
    LET parsed == ParseTimeInterval(time_interval, TRUE)
    IN  IF parsed = Raised THEN [status |-> "raised", heap |-> h, ret |-> None]
        ELSE LET ser == SerializeTime(parsed, TRUE)
                 start_time == ser.items[1]
                 end_time == ser.items[2]
                 p0 == AggregationPayload(evalscript, start_time, end_time,
                                          aggregation_interval)
                 p1 == IF Truthy(h, size) THEN Unpack(p0, "width", "height", size) ELSE p0
                 p2 == IF Truthy(h, resolution) THEN Unpack(p1, "resx", "resy", resolution)
                       ELSE p1
             IN  MergeOtherArgs(h, p2, other_args)

-----------------------------------------------------------------------------
\* SentinelHubBaseApiRequest.bounds(bbox, geometry): the bounds descriptor;
\* raises when both or neither of bbox and geometry are given.
Bounds(bbox, geometry) ==
    IF (bbox = None) = (geometry = None) THEN Raised
    ELSE IF bbox # None THEN Dict("bbox" :> bbox)
         ELSE Dict("geometry" :> geometry)

\* SentinelHubStatistical.__init__ up to the stored payload: the new object's
\* fields, or the exception.  bounds() is evaluated before body() is entered.
NewRequestMutEmptyCalc(h, aggregation, input_data, bbox, geometry, calculations) ==
    LET b == Bounds(bbox, geometry)
    IN  IF b = Raised THEN [status |-> "raised", heap |-> h, ret |-> None]
        ELSE LET r == Body(h, b, input_data, aggregation,
                           IF calculations = None THEN EmptyDict ELSE calculations, None)
             IN  [status |-> r.status, heap |-> r.heap,
                  ret |-> [mime_type |-> "JSON", payload |-> r.ret]]

NewRequest(h, aggregation, input_data, bbox, geometry, calculations) ==
    LET request_bounds == Bounds(bbox, geometry)
    IN  IF request_bounds = Raised THEN [status |-> "raised", heap |-> h, ret |-> None]
        ELSE LET r == Body(h, request_bounds, input_data, aggregation, calculations, None)
             IN  [status |-> r.status, heap |-> r.heap,
                  ret |-> [mime_type |-> "JSON", payload |-> r.ret]]

-----------------------------------------------------------------------------
\* The caller's objects and the arguments the calls are given.

DataRefIds == {<<"d", i>> : i \in 1..MaxData}
ListId == <<"list", 1>>
AggId == <<"agg", 1>>
CalcId == <<"calc", 1>>
EmptyCalcId == <<"calc", 2>>
BoundsId == <<"bounds", 1>>
RefIds == DataRefIds \cup {ListId, AggId, CalcId, EmptyCalcId, BoundsId}

EntryChoices ==
    { Dict("type" :> Str("sentinel-2-l2a")),
      Dict("type" :> Str("sentinel-2-l2a")
           @@ "dataFilter" :> Dict("maxCloudCoverage" :> Num(30))) }

\* The caller's list: the first n entries in order, or one entry listed twice.
ListChoices ==
    { [i \in 1..n |-> Ref(<<"d", i>>)] : n \in 0..MaxData }
    \cup { <<Ref(<<"d", 1>>), Ref(<<"d", 1>>)>> }

ExampleInterval == Tuple(<<IsoDate("2020-01-01"), IsoDate("2020-02-01")>>)

TimeIntervalChoices ==
    { ExampleInterval,
      Tuple(<<IsoDateTime("2020-01-01", "12:30:00"), None>>),
      None,
      Tuple(<<Str("yesterday"), IsoDate("2020-02-01")>>) }

SizeChoices == { None, Tuple(<<Num(512), Num(512)>>), Tuple(<<Num(0), Num(0)>>) }
ResolutionChoices == { None, Tuple(<<Num(10), Num(10)>>) }

AggregationOtherArgs ==
    { None, Dict("timeRange" :> Dict("from" :> Str("2019-01-01T00:00:00Z"))) }

AggChoices ==
    { Aggregation(EmptyMap, Str("return [B04]"), ExampleInterval, Str("P1D"),
                  Tuple(<<Num(512), Num(512)>>), None, None).ret }

CalcChoices ==
    { Dict("default" :> Dict("statistics" :> Str("percentiles"))
           @@ "custom" :> Dict("histograms" :> Dict("default" :> Dict("nBins" :> Num(5))))) }

CustomCalculations ==
    Dict("custom" :> Dict("histograms" :> Dict("default" :> EmptyDict)))

OtherData == List(<<Dict("type" :> Str("landsat-8-l1c"))>>)

BodyOtherArgs ==
    { None,
      EmptyDict,
      Dict("calculations" :> CustomCalculations),
      Dict("aggregation" :> Dict("width" :> Num(256))),
      Dict("input" :> Dict("data" :> OtherData)),
      Str("calculations") }

CalculationsArgs == { None, Ref(CalcId), Ref(EmptyCalcId) }
BBoxArgs == { None, Str("bbox") }
GeometryArgs == { None, Str("geometry") }

NoCall == [op |-> "none", status |-> "ok", args |-> None, pre |-> EmptyMap, ret |-> None]

Init ==
    /\ \E ents \in [DataRefIds -> EntryChoices], l \in ListChoices,
          a \in AggChoices, c \in CalcChoices :
          \* entries the list does not hold play no part: one value for them
          /\ \A d \in DataRefIds :
                (\A i \in DOMAIN l : l[i] # Ref(d)) =>
                    ents[d] = Dict("type" :> Str("sentinel-2-l2a"))
          /\ heap = [r \in RefIds |->
                       CASE r \in DataRefIds -> ents[r]
                         [] r = ListId -> List(l)
                         [] r = AggId -> a
                         [] r = CalcId -> c
                         [] r = EmptyCalcId -> EmptyDict
                         [] OTHER -> Bounds(Str("bbox"), None)]
    /\ requests = <<>>
    /\ last = NoCall

-----------------------------------------------------------------------------
\* The operations of the module.

\* SentinelHubStatistical(aggregation, input_data, bbox, geometry, calculations)
Construct ==
    /\ Len(requests) < MaxRequests
    /\ \E bbox \in BBoxArgs, geometry \in GeometryArgs, calculations \in CalculationsArgs :
          LET r == NewRequest(heap, Ref(AggId), Ref(ListId), bbox, geometry, calculations)
          IN  /\ heap' = r.heap
              /\ requests' = IF r.status = "ok" THEN Append(requests, r.ret) ELSE requests
              /\ last' = [op |-> "init", status |-> r.status,
                          args |-> [aggregation |-> Ref(AggId), input_data |-> Ref(ListId),
                                    bbox |-> bbox, geometry |-> geometry,
                                    calculations |-> calculations],
                          pre |-> heap, ret |-> r.ret]

\* SentinelHubStatistical.body(request_bounds, request_data, aggregation,
\*                             calculations, other_args)
CallBody ==
    \E calculations \in CalculationsArgs, other_args \in BodyOtherArgs :
       LET r == Body(heap, Ref(BoundsId), Ref(ListId), Ref(AggId), calculations, other_args)
       IN  /\ heap' = r.heap
           /\ last' = [op |-> "body", status |-> r.status,
                       args |-> [request_bounds |-> Ref(BoundsId),
                                 request_data |-> Ref(ListId),
                                 aggregation |-> Ref(AggId),
                                 calculations |-> calculations,
                                 other_args |-> other_args],
                       pre |-> heap, ret |-> r.ret]
           /\ UNCHANGED requests

\* SentinelHubStatistical.aggregation(evalscript, time_interval,
\*     aggregation_interval, size, resolution, other_args)
CallAggregation ==
    \E time_interval \in TimeIntervalChoices, size \in SizeChoices,
       resolution \in ResolutionChoices, other_args \in AggregationOtherArgs :
       LET r == Aggregation(heap, Str("return [B04]"), time_interval, Str("P1D"),
                            size, resolution, other_args)
       IN  /\ heap' = r.heap
           /\ last' = [op |-> "aggregation", status |-> r.status,
                       args |-> [time_interval |-> time_interval, size |-> size,
                                 resolution |-> resolution, other_args |-> other_args],
                       pre |-> heap, ret |-> r.ret]
           /\ UNCHANGED requests

Next == Construct \/ CallBody \/ CallAggregation

Spec == Init /\ [][Next]_vars

\* The operations one at a time, from the same initial states.
SpecBody == Init /\ [][CallBody]_vars
SpecConstruct == Init /\ [][Construct]_vars
SpecAggregation == Init /\ [][CallAggregation]_vars

\* Request objects and later body() calls on the objects they were built from.
SpecRequest == Init /\ [][Construct \/ CallBody]_vars

-----------------------------------------------------------------------------
\* Vocabulary of the properties.

BodyReturned == last.op = "body" /\ last.status = "ok"

\* other_args is a dictionary that names top-level key k.
Overrides(other_args, k) == other_args.t = "dict" /\ k \in DOMAIN other_args.m

\* The entries of the caller's list, as references, before the last call.
EntriesBefore == last.pre[last.args.request_data.r].items

HadDataFilter(e) == "dataFilter" \in DOMAIN last.pre[e.r].m

\* The payload's input.data as a reader sees it.
PayloadData(payload) == Resolve(heap, payload).m["input"].m["data"].items

\* The calculations value body() starts from, read before the call.
CalculationsBefore ==
    IF last.args.calculations = None THEN Dict("default" :> EmptyDict)
    ELSE Resolve(last.pre, last.args.calculations)

(* C1: after body() every entry of the payload's input.data has a dataFilter
   key; an entry that lacked it has dataFilter = {}, an entry that had one
   keeps its value, and body() on the resulting data changes nothing.  (The
   payload is read where other_args does not replace input.) *)
C1_DataFilterDefaulted ==
    (BodyReturned /\ ~Overrides(last.args.other_args, "input")) =>
        /\ Len(PayloadData(last.ret)) = Len(EntriesBefore)
        /\ \A i \in DOMAIN EntriesBefore :
              LET e == EntriesBefore[i]
                  out == PayloadData(last.ret)[i]
              IN  /\ "dataFilter" \in DOMAIN out.m
                  /\ out.m["dataFilter"] =
                        IF HadDataFilter(e)
                        THEN Resolve(last.pre, last.pre[e.r].m["dataFilter"])
                        ELSE EmptyDict
        /\ Body(heap, last.args.request_bounds, last.args.request_data,
                last.args.aggregation, last.args.calculations, None).heap = heap

C1_Witness ==
    /\ BodyReturned
    /\ ~Overrides(last.args.other_args, "input")
    /\ \E i \in DOMAIN EntriesBefore : ~HadDataFilter(EntriesBefore[i])
    /\ \E i \in DOMAIN EntriesBefore : HadDataFilter(EntriesBefore[i])

(* C2: body() with calculations=None and no other_args returns calculations
   equal to {"default": {}}; with a non-empty calculations dict it returns
   that very dict, unchanged. *)
C2_CalculationsDefaultOrIdentity ==
    (BodyReturned /\ ~Truthy(last.pre, last.args.other_args)) =>
        /\ last.args.calculations = None =>
              Resolve(heap, last.ret.m["calculations"]) = Dict("default" :> EmptyDict)
        /\ (last.args.calculations # None /\ Truthy(last.pre, last.args.calculations)) =>
              /\ last.ret.m["calculations"] = last.args.calculations
              /\ heap[last.args.calculations.r] = last.pre[last.args.calculations.r]

C2_Witness ==
    /\ BodyReturned
    /\ last.args.other_args = None
    /\ last.args.calculations = None
    /\ Resolve(heap, last.ret.m["calculations"]) = Dict("default" :> EmptyDict)

C2_WitnessIdentity ==
    /\ BodyReturned
    /\ last.args.other_args = None
    /\ last.args.calculations # None
    /\ Truthy(last.pre, last.args.calculations)

(* C3, as claimed: body() without other_args returns calculations equal to
   {"default": {}} both for calculations=None and for calculations={}. *)
C3_EmptyCalculationsDefaulted ==
    (/\ BodyReturned
     /\ ~Truthy(last.pre, last.args.other_args)
     /\ ~Truthy(last.pre, last.args.calculations)) =>
        Resolve(heap, last.ret.m["calculations"]) = Dict("default" :> EmptyDict)

(* C3, amended: body() without other_args substitutes {"default": {}} only
   for calculations=None; an empty dict is kept: the payload's calculations
   is that same dict and is still empty. *)
C3_OnlyNoneDefaulted ==
    (BodyReturned /\ ~Truthy(last.pre, last.args.other_args)) =>
        /\ last.args.calculations = None =>
              Resolve(heap, last.ret.m["calculations"]) = Dict("default" :> EmptyDict)
        /\ (last.args.calculations # None /\ ~Truthy(last.pre, last.args.calculations)) =>
              /\ last.ret.m["calculations"] = last.args.calculations
              /\ Resolve(heap, last.ret.m["calculations"]) = EmptyDict

C3_Witness ==
    /\ BodyReturned
    /\ last.args.other_args = None
    /\ last.args.calculations # None
    /\ ~Truthy(last.pre, last.args.calculations)

AggregationReturned == last.op = "aggregation" /\ last.status = "ok"

\* What payload holds for the unpacked pair under keys k1, k2.
HasPair(payload, k1, k2, pair) ==
    /\ k1 \in DOMAIN payload.m /\ payload.m[k1] = pair.items[1]
    /\ k2 \in DOMAIN payload.m /\ payload.m[k2] = pair.items[2]

(* C4: aggregation() without other_args returns width and height (the two
   components of size) exactly when size was given, and resx and resy (the
   two components of resolution) exactly when resolution was given, each
   pair independently of the other. *)
C4_SizeResolutionIndependent ==
    (AggregationReturned /\ ~Truthy(last.pre, last.args.other_args)) =>
        /\ IF last.args.size # None
           THEN HasPair(last.ret, "width", "height", last.args.size)
           ELSE {"width", "height"} \cap DOMAIN last.ret.m = {}
        /\ IF last.args.resolution # None
           THEN HasPair(last.ret, "resx", "resy", last.args.resolution)
           ELSE {"resx", "resy"} \cap DOMAIN last.ret.m = {}

C4_Witness ==
    /\ AggregationReturned
    /\ last.args.other_args = None
    /\ last.args.size # None
    /\ last.args.resolution # None
    /\ {"width", "height", "resx", "resy"} \subseteq DOMAIN last.ret.m

\* The previous value deep-merged with the override, on plain values: a key
\* of the override replaces the previous one unless both hold dictionaries,
\* which are merged key by key.
RECURSIVE MergedValue(_, _)
MergedValue(prev, over) ==
    IF prev.t = "dict" /\ over.t = "dict"
    THEN Dict([k \in DOMAIN prev.m \cup DOMAIN over.m |->
                 IF k \notin DOMAIN over.m THEN prev.m[k]
                 ELSE IF k \notin DOMAIN prev.m THEN over.m[k]
                 ELSE MergedValue(prev.m[k], over.m[k])])
    ELSE over

(* C5, as claimed: with other_args holding a calculations key, the returned
   payload's calculations equals exactly the value from other_args. *)
C5_CalculationsReplacedEntirely ==
    (BodyReturned /\ Overrides(last.args.other_args, "calculations")) =>
        Resolve(heap, last.ret.m["calculations"])
            = Resolve(last.pre, last.args.other_args.m["calculations"])

(* C5, amended: with other_args holding a calculations key, the returned
   payload's calculations is the previous calculations (the caller's, or the
   default) deep-merged with the value from other_args: the keys of
   other_args win, nested dictionaries are merged key by key, and the
   previous keys that other_args does not name remain. *)
C5_CalculationsDeepMerged ==
    (BodyReturned /\ Overrides(last.args.other_args, "calculations")) =>
        /\ Resolve(heap, last.ret.m["calculations"])
              = MergedValue(CalculationsBefore,
                            Resolve(last.pre, last.args.other_args.m["calculations"]))
        /\ DOMAIN CalculationsBefore.m
              \subseteq DOMAIN Resolve(heap, last.ret.m["calculations"]).m

C5_Witness ==
    /\ BodyReturned
    /\ Overrides(last.args.other_args, "calculations")
    /\ last.args.calculations = None
    /\ DOMAIN Resolve(heap, last.ret.m["calculations"]).m = {"default", "custom"}

ConstructReturned == last.op = "init" /\ last.status = "ok"

(* C6: a Request Object constructed from a bbox, input_data, an aggregation
   dict and no calculations stores the payload body() returns for
   (bounds(bbox, geometry), input_data, aggregation, None) without
   other_args: dataFilter = {} on each entry that lacked it, calculations =
   {"default": {}}, the aggregation dict that was passed in; and the MIME
   type of every Request Object is JSON. *)
C6_ConstructedPayload ==
    /\ \A i \in DOMAIN requests : requests[i].mime_type = "JSON"
    /\ ConstructReturned =>
          LET stored == requests[Len(requests)]
              entries == last.pre[last.args.input_data.r].items
          IN  /\ stored = last.ret
              /\ stored.payload.m["input"].m["bounds"]
                    = Bounds(last.args.bbox, last.args.geometry)
              /\ stored.payload.m["input"].m["data"] = last.args.input_data
              /\ stored.payload.m["aggregation"] = last.args.aggregation
              /\ Len(PayloadData(stored.payload)) = Len(entries)
              /\ \A i \in DOMAIN entries :
                    "dataFilter" \notin DOMAIN last.pre[entries[i].r].m =>
                        PayloadData(stored.payload)[i].m["dataFilter"] = EmptyDict
              /\ last.args.calculations = None =>
                    Resolve(heap, stored.payload.m["calculations"])
                        = Dict("default" :> EmptyDict)
              /\ last.args.calculations # None =>
                    stored.payload.m["calculations"] = last.args.calculations

C6_Witness ==
    /\ ConstructReturned
    /\ last.args.bbox # None
    /\ last.args.calculations = None
    /\ \E i \in DOMAIN last.pre[last.args.input_data.r].items :
          "dataFilter" \notin DOMAIN last.pre[last.pre[last.args.input_data.r].items[i].r].m
    /\ Resolve(heap, requests[Len(requests)].payload.m["calculations"])
          = Dict("default" :> EmptyDict)

\* What the last body() call did to the caller's data: the list itself is as
\* before, and each entry keeps its keys and values, gaining at most
\* dataFilter = {}.
DataOnlyGainedDataFilter ==
    /\ heap[last.args.request_data.r] = last.pre[last.args.request_data.r]
    /\ \A d \in DataRefIds :
          /\ \A k \in DOMAIN last.pre[d].m :
                k \in DOMAIN heap[d].m /\ heap[d].m[k] = last.pre[d].m[k]
          /\ DOMAIN heap[d].m \subseteq DOMAIN last.pre[d].m \cup {"dataFilter"}
          /\ ("dataFilter" \in DOMAIN heap[d].m /\ "dataFilter" \notin DOMAIN last.pre[d].m)
                => /\ heap[d].m["dataFilter"] = EmptyDict
                   /\ \E i \in DOMAIN EntriesBefore : EntriesBefore[i] = Ref(d)

\* The bounds, aggregation and calculations arguments are as before the call.
OtherArgumentsUntouched ==
    \A r \in {BoundsId, AggId, CalcId, EmptyCalcId} : heap[r] = last.pre[r]

(* C7, as claimed: body() changes the caller's values only by inserting
   dataFilter = {} into the entries that lack it; the list keeps its length
   and order, the entries their keys and values, the payload's input.data is
   that same list, and without other_args the bounds, aggregation and
   calculations arguments are not modified. *)
C7_OnlyDataFilterInserted ==
    last.op = "body" =>
        /\ DataOnlyGainedDataFilter
        /\ last.status = "ok" =>
              last.ret.m["input"].m["data"] = last.args.request_data
        /\ ~Truthy(last.pre, last.args.other_args) => OtherArgumentsUntouched

(* C7, amended: as C7, except that the payload's input.data is the caller's
   list only when other_args holds no input.data of its own, which otherwise
   takes its place in the payload (the caller's list is still only changed
   by the inserted dataFilter keys). *)
C7_OnlyDataFilterInsertedUnlessOverridden ==
    last.op = "body" =>
        /\ DataOnlyGainedDataFilter
        /\ last.status = "ok" =>
              last.ret.m["input"].m["data"] =
                 IF /\ Overrides(last.args.other_args, "input")
                    /\ Overrides(last.args.other_args.m["input"], "data")
                 THEN last.args.other_args.m["input"].m["data"]
                 ELSE last.args.request_data
        /\ ~Truthy(last.pre, last.args.other_args) => OtherArgumentsUntouched

C7_Witness ==
    /\ BodyReturned
    /\ Overrides(last.args.other_args, "input")
    /\ \E i \in DOMAIN EntriesBefore : ~HadDataFilter(EntriesBefore[i])
    /\ \E i \in DOMAIN EntriesBefore : HadDataFilter(EntriesBefore[i])
    /\ heap # last.pre

\* The interval has an undefined (None) start or end, or is None itself.
HasUndefined(time_interval) ==
    \/ time_interval = None
    \/ /\ time_interval.t = "tuple"
       /\ \E i \in DOMAIN time_interval.items : time_interval.items[i] = None

WellFormed(time_interval) ==
    \/ time_interval = None
    \/ /\ time_interval.t = "tuple"
       /\ Len(time_interval.items) = 2
       /\ \A i \in DOMAIN time_interval.items :
             time_interval.items[i].t \in {"none", "date", "datetime"}

(* C8: aggregation() given ("2020-01-01", "2020-02-01") returns timeRange =
   {"from": "2020-01-01T00:00:00Z", "to": "2020-02-01T00:00:00Z"}; in
   general from is the first and to the second component of
   serialize_time(parse_time_interval(time_interval, allow_undefined=True),
   use_tz=True), and an undefined start or end is accepted.  (The timeRange
   is read where other_args does not replace it.) *)
C8_TimeRange ==
    last.op = "aggregation" =>
        /\ WellFormed(last.args.time_interval) => last.status = "ok"
        /\ (last.status = "ok" /\ ~Overrides(last.args.other_args, "timeRange")) =>
              LET ser == SerializeTime(ParseTimeInterval(last.args.time_interval, TRUE), TRUE)
              IN  /\ last.ret.m["timeRange"]
                        = Dict("from" :> ser.items[1] @@ "to" :> ser.items[2])
                  /\ last.args.time_interval = ExampleInterval =>
                        last.ret.m["timeRange"]
                            = Dict("from" :> Str("2020-01-01T00:00:00Z")
                                   @@ "to" :> Str("2020-02-01T00:00:00Z"))
                  /\ \A i \in {1, 2} :
                        (/\ last.args.time_interval # None
                         /\ last.args.time_interval.items[i] = None) =>
                            last.ret.m["timeRange"].m[IF i = 1 THEN "from" ELSE "to"] = None

C8_Witness ==
    /\ AggregationReturned
    /\ last.args.time_interval = ExampleInterval
    /\ last.args.other_args = None
    /\ last.ret.m["timeRange"].m["from"] = Str("2020-01-01T00:00:00Z")
    /\ last.ret.m["timeRange"].m["to"] = Str("2020-02-01T00:00:00Z")

C8_WitnessUndefined ==
    /\ AggregationReturned
    /\ HasUndefined(last.args.time_interval)
    /\ last.args.time_interval # None
    /\ last.ret.m["timeRange"].m["to"] = None

(* C9: once a Request Object is constructed, what its stored payload holds
   never changes under any later operation, also when later calls are given
   the same input_data list, aggregation dict or calculations dict. *)
C9_StoredPayloadNeverChanges ==
    [][\A i \in DOMAIN requests :
          Resolve(heap', requests[i].payload) = Resolve(heap, requests[i].payload)]_vars

(* C10: a call that raises, whether in bounds resolution in the constructor
   or in the merge of other_args in body(), leaves the caller's objects as
   they were before the call (no dataFilter inserted) and stores or returns
   no payload. *)
C10_FailureLeavesNoTrace ==
    (last.op \in {"init", "body"} /\ last.status = "raised") =>
        /\ heap = last.pre
        /\ last.ret = None

====
